---- MODULE Spec2Model ----
(***************************************************************************)
(* Decoding of the game-data tables PhantomItemData,                       *)
(* PhantomCustomizeItemData and SummonCfgData (wicked-waifus-data).        *)
(*                                                                         *)
(* The three structs derive serde's Deserialize.  The model gives the      *)
(* derived decoder of each struct as an operator over raw JSON values:     *)
(* the struct visitor (keys visited in input order, unknown keys denied    *)
(* or ignored, missing fields reported after the last key), the            *)
(* primitive visitors of i32, i64, f32, bool and String, Vec<T> and the    *)
(* fixed-size array [f32; 3].  The feature strict_json_fields is the       *)
(* parameter `strict` of every operator it gates.                          *)
(***************************************************************************)
EXTENDS Integers, Sequences, FiniteSets, TLC

VARIABLES
    table,      \* Spec: the struct the raw record is decoded into
    raw,        \* Spec: the raw record, a JSON object
    result,     \* Spec: result[b] = the decode result of the build with strict_json_fields = b
    strict,     \* SpecLoad: the feature strict_json_fields of the running build
    raws,       \* SpecLoad: raws[t] = the raw records supplied for table t, in input order
    loaded,     \* SpecLoad: loaded[t] = the outcome of loading table t
    lookup      \* SpecLoad: the last get(identifier) and what it returned

vars == <<table, raw, result, strict, raws, loaded, lookup>>

-----------------------------------------------------------------------------
(* Numbers.  TLC's integers are 32 bits wide, the decoded fields are i32,  *)
(* i64 and f32, and JSON numbers are wider than all three.  A number is    *)
(* written exactly as anchor + offset: N(a, o) is Anchor(a) + o with       *)
(* Anchor(-2) = -2^63, Anchor(-1) = -2^31, Anchor(0) = 0,                  *)
(* Anchor(1) = 2^31, Anchor(2) = 2^63 and |o| <= 2^30, so that numbers     *)
(* are ordered by (a, o).                                                  *)

N(a, o) == [a |-> a, o |-> o]

\* i32::MIN <= n <= i32::MAX, that is -2^31 <= n <= 2^31 - 1
InI32(n) ==
    \/ n.a = 0
    \/ n.a = 1 /\ n.o < 0
    \/ n.a = -1 /\ n.o >= 0

\* i64::MIN <= n <= i64::MAX, that is -2^63 <= n <= 2^63 - 1
InI64(n) ==
    \/ n.a \in {-1, 0, 1}
    \/ n.a = 2 /\ n.o < 0
    \/ n.a = -2 /\ n.o >= 0

\* the number of mantissa bits of an f32 (with the implicit bit): integers
\* of magnitude up to 2^24 are exact
F32Exact == 16777216

Abs(i) == IF i < 0 THEN -i ELSE i

\* `v as f32`: round to the nearest f32, ties to the even mantissa.  Defined
\* on the numbers the inputs use: |n| < 2^25 around 0 (spacing 2 above
\* 2^24), and offsets below half a spacing (64) around the other anchors.
F32Round(n) ==
    IF n.a # 0 THEN N(n.a, 0)
    ELSE IF Abs(n.o) <= F32Exact THEN n
    ELSE LET m == Abs(n.o) \div 2
             r == Abs(n.o) % 2
             q == IF r = 0 THEN m ELSE IF m % 2 = 0 THEN m ELSE m + 1
             s == IF n.o < 0 THEN -1 ELSE 1
         IN  N(0, s * 2 * q)

-----------------------------------------------------------------------------
(* Raw JSON values.  An object is the sequence of its <<key, value>>       *)
(* members in input order, which is the order serde's MapAccess hands      *)
(* them to the struct visitor.  A raw record is a mapping: the records     *)
(* decoded here have no key twice.                                         *)

JInt(n)   == [kind |-> "int", v |-> n]
JFloat(n) == [kind |-> "float", v |-> n]
JStr(s)   == [kind |-> "str", v |-> s]
JBool(b)  == [kind |-> "bool", v |-> b]
JNull     == [kind |-> "null", v |-> <<>>]
JList(xs) == [kind |-> "list", v |-> xs]
JObject(m) == [kind |-> "map", v |-> m]

I(i) == JInt(N(0, i))
F(i) == JFloat(N(0, i))

Keys(members) == {members[i][1] : i \in DOMAIN members}

-----------------------------------------------------------------------------
(* Decode results.                                                         *)

Ok(x) == [ok |-> TRUE, val |-> x, err |-> "", field |-> ""]
Err(e, f) == [ok |-> FALSE, val |-> <<>>, err |-> e, field |-> f]
Pending == [ok |-> FALSE, val |-> <<>>, err |-> "pending", field |-> ""]

\* serde::de::Error constructors, under the names the error kinds have in
\* the table registry
MissingField == "MissingField"          \* Error::missing_field
UnknownField == "UnknownField"          \* Error::unknown_field
TypeMismatch == "TypeMismatch"          \* Error::invalid_type
InvalidValue == "InvalidValue"          \* Error::invalid_value (integer out of range)
InvalidLength == "InvalidLength"        \* Error::invalid_length / trailing elements
DuplicateField == "DuplicateField"      \* Error::duplicate_field

-----------------------------------------------------------------------------
(* The structs.  A field is its Rust name, its key under                   *)
(* rename_all = "PascalCase", its type, and whether it is compiled only    *)
(* with the feature strict_json_fields.                                    *)

Fld(name, key, ty) == [name |-> name, key |-> key, ty |-> ty, strictOnly |-> FALSE]
StrictFld(name, key, ty) == [name |-> name, key |-> key, ty |-> ty, strictOnly |-> TRUE]

MainPropFields == <<
    Fld("rand_group_id", "RandGroupId", "i32"),
    Fld("rand_num", "RandNum", "i32") >>

PhantomItemDataFields == <<
    Fld("item_id", "ItemId", "i32"),
    Fld("monster_id", "MonsterId", "i32"),
    StrictFld("monster_name", "MonsterName", "String"),
    Fld("element_type", "ElementType", "Vec<i32>"),
    Fld("main_prop", "MainProp", "MainProp"),
    Fld("level_up_group_id", "LevelUpGroupId", "i32"),
    Fld("skill_id", "SkillId", "i32"),
    Fld("calabash_buffs", "CalabashBuffs", "Vec<i32>"),
    Fld("rarity", "Rarity", "i32"),
    Fld("mesh_id", "MeshId", "i32"),
    Fld("zoom", "Zoom", "[f32; 3]"),
    Fld("location", "Location", "[f32; 3]"),
    Fld("rotator", "Rotator", "[f32; 3]"),
    StrictFld("stand_anim", "StandAnim", "String"),
    StrictFld("type_description", "TypeDescription", "String"),
    StrictFld("attributes_description", "AttributesDescription", "String"),
    StrictFld("icon", "Icon", "String"),
    StrictFld("icon_middle", "IconMiddle", "String"),
    StrictFld("icon_small", "IconSmall", "String"),
    StrictFld("mesh", "Mesh", "String"),
    Fld("quality_id", "QualityId", "i32"),
    Fld("max_capcity", "MaxCapcity", "i32"),
    Fld("item_access", "ItemAccess", "Vec<i32>"),
    Fld("obtained_show", "ObtainedShow", "i32"),
    StrictFld("obtained_show_description", "ObtainedShowDescription", "String"),
    Fld("num_limit", "NumLimit", "i32"),
    Fld("show_in_bag", "ShowInBag", "bool"),
    Fld("sort_index", "SortIndex", "i32"),
    StrictFld("skill_icon", "SkillIcon", "String"),
    Fld("destructible", "Destructible", "bool"),
    Fld("red_dot_disable_rule", "RedDotDisableRule", "i32"),
    Fld("fetter_group", "FetterGroup", "Vec<i32>"),
    Fld("phantom_type", "PhantomType", "i32"),
    Fld("parent_monster_id", "ParentMonsterId", "i32") >>

PhantomCustomizeItemDataFields == <<
    Fld("item_id", "ItemId", "i32"),
    Fld("phantom_id", "PhantomId", "i32"),
    Fld("skin_item_id", "SkinItemId", "i32") >>

SummonCfgDataFields == <<
    Fld("id", "Id", "i32"),
    Fld("blueprint_type", "BlueprintType", "String"),
    StrictFld("name", "Name", "String"),
    Fld("born_buff_id", "BornBuffId", "Vec<i64>") >>

Tables == {"PhantomItemData", "PhantomCustomizeItemData", "SummonCfgData"}

\* every field a struct declares in the source, gated or not
AllFields(struct) ==
    CASE struct = "MainProp" -> MainPropFields
      [] struct = "PhantomItemData" -> PhantomItemDataFields
      [] struct = "PhantomCustomizeItemData" -> PhantomCustomizeItemDataFields
      [] struct = "SummonCfgData" -> SummonCfgDataFields

\* the gate left out: every field compiled in every build
IsCompiledUngated(f, strictBuild) == TRUE

\* #[cfg(feature = "strict_json_fields")]: the fields the build compiles
IsCompiled(f, strictBuild) == strictBuild \/ ~f.strictOnly

Structs == Tables \cup {"MainProp"}

\* the fields of every struct in either build, and their keys
CompiledFields ==
    [struct \in Structs, strictBuild \in BOOLEAN |->
        SelectSeq(AllFields(struct), LAMBDA f : IsCompiled(f, strictBuild))]

Fields(struct, strictBuild) == CompiledFields[struct, strictBuild]

CompiledKeys ==
    [struct \in Structs, strictBuild \in BOOLEAN |->
        {CompiledFields[struct, strictBuild][i].key :
            i \in DOMAIN CompiledFields[struct, strictBuild]}]

\* the attribute left out of the table structs
DenyUnknownFieldsNever(struct, strictBuild) == FALSE

\* the attribute set without its feature gate
DenyUnknownFieldsUngated(struct, strictBuild) == struct \in Tables

\* #[cfg_attr(feature = "strict_json_fields", serde(deny_unknown_fields))]
\* is on the three table structs; MainProp carries no such attribute.
DenyUnknownFields(struct, strictBuild) ==
    struct \in Tables /\ strictBuild

\* the length of the arrays zoom, location and rotator
TupleArity == 3

-----------------------------------------------------------------------------
(* The decoders that #[derive(Deserialize)] generates, over serde_json.    *)

\* serde_json reads an integer literal below i64::MIN as an f64, and hands
\* the visitor a float
ReadAsFloat(v) ==
    \/ v.kind = "float"
    \/ v.kind = "int" /\ v.v.a = -2 /\ v.v.o < 0

\* an i32 decoder that parses numeric-looking text
DeI32Coercing(v) ==
    IF v.kind = "str" /\ v.v = "1" THEN Ok(N(0, 1))
    ELSE IF v.kind # "int" \/ ReadAsFloat(v) THEN Err(TypeMismatch, "")
    ELSE IF InI32(v.v) THEN Ok(v.v)
    ELSE Err(InvalidValue, "")

\* i32: an integer in range; text, floats and every other kind are not coerced
DeI32(v) ==
    IF v.kind # "int" \/ ReadAsFloat(v) THEN Err(TypeMismatch, "")
    ELSE IF InI32(v.v) THEN Ok(v.v)
    ELSE Err(InvalidValue, "")

\* i64: an integer in range
DeI64(v) ==
    IF v.kind # "int" \/ ReadAsFloat(v) THEN Err(TypeMismatch, "")
    ELSE IF InI64(v.v) THEN Ok(v.v)
    ELSE Err(InvalidValue, "")

\* a float decoder that keeps the f64 (the field declared f64)
DeF32Wide(v) ==
    IF v.kind \in {"int", "float"} THEN Ok(v.v)
    ELSE Err(TypeMismatch, "")

\* f32: any JSON number, integer or float, cast with `as f32`
DeF32(v) ==
    IF v.kind \in {"int", "float"} THEN Ok(F32Round(v.v))
    ELSE Err(TypeMismatch, "")

DeBool(v) == IF v.kind = "bool" THEN Ok(v.v) ELSE Err(TypeMismatch, "")

DeString(v) == IF v.kind = "str" THEN Ok(v.v) ELSE Err(TypeMismatch, "")

DePrimitive(ty, v) ==
    CASE ty = "i32" -> DeI32(v)
      [] ty = "i64" -> DeI64(v)
      [] ty = "f32" -> DeF32(v)
      [] ty = "bool" -> DeBool(v)
      [] ty = "String" -> DeString(v)

\* a list decoder that pushes each element in front of the earlier ones
RECURSIVE DeElementsReversed(_, _, _, _)
DeElementsReversed(ty, xs, i, acc) ==
    IF i > Len(xs) THEN Ok(acc)
    ELSE LET r == DePrimitive(ty, xs[i])
         IN  IF r.ok THEN DeElementsReversed(ty, xs, i + 1, <<r.val>> \o acc) ELSE r

\* Vec<T>::deserialize, VecVisitor::visit_seq: the elements in input order,
\* the first element that fails to decode fails the list
RECURSIVE DeElements(_, _, _, _)
DeElements(ty, xs, i, acc) ==
    IF i > Len(xs) THEN Ok(acc)
    ELSE LET r == DePrimitive(ty, xs[i])
         IN  IF r.ok THEN DeElements(ty, xs, i + 1, Append(acc, r.val)) ELSE r

DeVec(ty, v) ==
    IF v.kind = "list" THEN DeElements(ty, v.v, 1, <<>>) ELSE Err(TypeMismatch, "")

\* an array decoder that leaves the rest of a longer list unread
RECURSIVE DeArrayFromPrefix(_, _, _, _, _)
DeArrayFromPrefix(ty, n, xs, i, acc) ==
    IF i > n THEN Ok(acc)
    ELSE IF i > Len(xs) THEN Err(InvalidLength, "")
    ELSE LET r == DePrimitive(ty, xs[i])
         IN  IF r.ok THEN DeArrayFromPrefix(ty, n, xs, i + 1, Append(acc, r.val)) ELSE r

\* [T; n]::deserialize, ArrayVisitor::visit_seq: next_element n times, a
\* missing element is invalid_length; serde_json then refuses what is left
\* of the list
RECURSIVE DeArrayFrom(_, _, _, _, _)
DeArrayFrom(ty, n, xs, i, acc) ==
    IF i > n THEN (IF Len(xs) > n THEN Err(InvalidLength, "") ELSE Ok(acc))
    ELSE IF i > Len(xs) THEN Err(InvalidLength, "")
    ELSE LET r == DePrimitive(ty, xs[i])
         IN  IF r.ok THEN DeArrayFrom(ty, n, xs, i + 1, Append(acc, r.val)) ELSE r

DeArray(ty, n, v) ==
    IF v.kind = "list" THEN DeArrayFrom(ty, n, v.v, 1, <<>>) ELSE Err(TypeMismatch, "")

\* the index of the field of `fields` renamed to `key`, or 0 (the match on
\* the key that the derived field visitor makes)
KeyIndex ==
    [struct \in Structs, strictBuild \in BOOLEAN |->
        [key \in CompiledKeys[struct, strictBuild] |->
            CHOOSE i \in DOMAIN CompiledFields[struct, strictBuild] :
                CompiledFields[struct, strictBuild][i].key = key]]

FieldIndex(struct, strictBuild, key) ==
    IF key \in CompiledKeys[struct, strictBuild]
    THEN KeyIndex[struct, strictBuild][key]
    ELSE 0

\* the record so far, with slot `name` set
WithSlot(rec, name, val) ==
    [n \in DOMAIN rec \cup {name} |-> IF n = name THEN val ELSE rec[n]]

NoSlots == [n \in {} |-> 0]

\* every field defaulted (#[serde(default)]): no field is ever missing
FirstMissingDefaulted(fields, rec) == 0

\* after the last key: the first field, in declaration order, that no key
\* filled is Error::missing_field (no field has a default)
FirstMissing(fields, rec) ==
    IF \E i \in DOMAIN fields : fields[i].name \notin DOMAIN rec
    THEN CHOOSE i \in DOMAIN fields :
            /\ fields[i].name \notin DOMAIN rec
            /\ \A j \in 1..(i - 1) : fields[j].name \in DOMAIN rec
    ELSE 0

RECURSIVE DeValue(_, _, _)
RECURSIVE VisitMap(_, _, _, _, _)
RECURSIVE VisitSeq(_, _, _, _, _)

\* the derived Visitor::visit_map of a struct: the members in input order
VisitMap(struct, strictBuild, members, i, rec) ==
    LET fields == Fields(struct, strictBuild)
    IN  IF i > Len(members)
        THEN LET m == FirstMissing(fields, rec)
             IN  IF m = 0 THEN Ok(rec) ELSE Err(MissingField, fields[m].key)
        ELSE LET key == members[i][1]
                 f == FieldIndex(struct, strictBuild, key)
             IN  IF f = 0
                 THEN IF DenyUnknownFields(struct, strictBuild)
                      THEN Err(UnknownField, key)
                      ELSE VisitMap(struct, strictBuild, members, i + 1, rec)
                 ELSE IF fields[f].name \in DOMAIN rec
                 THEN Err(DuplicateField, key)
                 ELSE LET r == DeValue(fields[f].ty, strictBuild, members[i][2])
                      IN  IF r.ok
                          THEN VisitMap(struct, strictBuild, members, i + 1,
                                        WithSlot(rec, fields[f].name, r.val))
                          ELSE r

\* the derived Visitor::visit_seq of a struct: the fields by position
VisitSeq(struct, strictBuild, xs, i, rec) ==
    LET fields == Fields(struct, strictBuild)
    IN  IF i > Len(fields)
        THEN (IF Len(xs) > Len(fields) THEN Err(InvalidLength, "") ELSE Ok(rec))
        ELSE IF i > Len(xs) THEN Err(InvalidLength, "")
        ELSE LET r == DeValue(fields[i].ty, strictBuild, xs[i])
             IN  IF r.ok
                 THEN VisitSeq(struct, strictBuild, xs, i + 1,
                               WithSlot(rec, fields[i].name, r.val))
                 ELSE r

\* Deserializer::deserialize_struct of serde_json: an object or a list
DeStruct(struct, strictBuild, v) ==
    CASE v.kind = "map" -> VisitMap(struct, strictBuild, v.v, 1, NoSlots)
      [] v.kind = "list" -> VisitSeq(struct, strictBuild, v.v, 1, NoSlots)
      [] OTHER -> Err(TypeMismatch, "")

\* the decoder of a field, by the type the field is declared with
DeValue(ty, strictBuild, v) ==
    CASE ty \in {"i32", "i64", "f32", "bool", "String"} -> DePrimitive(ty, v)
      [] ty = "Vec<i32>" -> DeVec("i32", v)
      [] ty = "Vec<i64>" -> DeVec("i64", v)
      [] ty = "[f32; 3]" -> DeArray("f32", TupleArity, v)
      [] ty = "MainProp" -> DeStruct("MainProp", strictBuild, v)

\* serde_json::from_*::<T> of one raw record
Decode(struct, strictBuild, rawRecord) == DeStruct(struct, strictBuild, rawRecord)

-----------------------------------------------------------------------------
(* Raw records to decode: the record that matches the struct exactly;      *)
(* that record with the value of one key replaced; with the gated keys     *)
(* dropped in any combination; with one key dropped and another replaced   *)
(* by text; and the exact record, the record with one key dropped and the  *)
(* record with one key replaced by text, each with an undeclared key put   *)
(* in front of or behind the others.                                       *)

\* the longest raw list tried for a list or array field
MaxListLen == 4

I32Max == N(1, -1)
I32Min == N(-1, 0)
I64Max == N(2, -1)
I64Min == N(-2, 0)

\* <<I(1), ..., I(n)>>
IntList(n) == [i \in 1..n |-> I(i)]
FloatList(n) == [i \in 1..n |-> F(i)]
ReplaceAt(xs, p, x) == [i \in DOMAIN xs |-> IF i = p THEN x ELSE xs[i]]

ValidMainProp == JObject(<< <<"RandGroupId", I(5)>>, <<"RandNum", I(3)>> >>)

\* a raw value of the kind the type asks for; integer fields get the
\* position of the field, so that no two of them hold the same value
ValidValue(ty, i) ==
    CASE ty = "i32" -> I(i)
      [] ty = "String" -> JStr("a")
      [] ty = "bool" -> JBool(TRUE)
      [] ty = "Vec<i32>" -> JList(IntList(2))
      [] ty = "Vec<i64>" -> JList(<<I(100), I(200)>>)
      [] ty = "[f32; 3]" -> JList(FloatList(3))
      [] ty = "MainProp" -> ValidMainProp

ExactRecords ==
    [t \in Tables |->
        [i \in DOMAIN AllFields(t) |->
            <<AllFields(t)[i].key, ValidValue(AllFields(t)[i].ty, i)>>]]

\* the members of the raw record that matches table t exactly
Base(t) == ExactRecords[t]

Scalars == {
    I(0), I(7), I(-7), I(F32Exact + 1), I(F32Exact + 3),
    JInt(I32Max), JInt(N(1, 0)), JInt(I32Min), JInt(N(-1, -1)),
    JInt(I64Max), JInt(N(2, 0)), JInt(I64Min), JInt(N(-2, -1)),
    F(1), F(F32Exact + 1),
    JStr("1"), JStr("a"), JBool(FALSE), JNull }

Lists ==
    {JList(IntList(n)) : n \in 0..MaxListLen}
    \cup {JList(FloatList(n)) : n \in 1..MaxListLen}
    \cup {JList(ReplaceAt(IntList(n), p, JStr("1"))) : n \in 1..MaxListLen, p \in 1..MaxListLen}
    \cup {JList(ReplaceAt(IntList(n), p, F(2))) : n \in 1..MaxListLen, p \in 1..MaxListLen}
    \cup {JList(<<JInt(I64Min), JInt(I64Max)>>), JList(<<I(1), JInt(N(2, 0))>>),
          JList(<<JInt(I32Max), JInt(I32Min)>>), JList(<<I(1), JInt(N(1, 0))>>),
          JList(<<F(F32Exact + 1), F(2), F(F32Exact + 3)>>),
          JList(<<I(5), I(3)>>)}

Objects == {
    ValidMainProp,
    JObject(<< <<"RandNum", I(3)>>, <<"RandGroupId", I(5)>> >>),
    JObject(<< <<"RandGroupId", I(5)>>, <<"RandNum", I(3)>>, <<"Extra", I(0)>> >>),
    JObject(<< <<"Extra", I(0)>>, <<"RandGroupId", I(5)>>, <<"RandNum", I(3)>> >>),
    JObject(<< <<"RandGroupId", I(5)>> >>),
    JObject(<< <<"RandNum", I(3)>> >>),
    JObject(<< <<"RandGroupId", JStr("1")>>, <<"RandNum", I(3)>> >>),
    JObject(<< <<"RandGroupId", I(5)>>, <<"RandNum", F(3)>> >>),
    JObject(<< <<"RandGroupId", I(5)>>, <<"RandNum", JInt(N(1, 0))>> >>),
    JObject(<< >>) }

AltValues == Scalars \cup Lists \cup Objects

\* the key no struct declares
ExtraKey == "Extra"

DropAt(ms, p) == [i \in 1..(Len(ms) - 1) |-> IF i < p THEN ms[i] ELSE ms[i + 1]]
SetAt(ms, p, v) == [i \in DOMAIN ms |-> IF i = p THEN <<ms[i][1], v>> ELSE ms[i]]

GatedKeys ==
    [t \in Tables |->
        {AllFields(t)[i].key : i \in {j \in DOMAIN AllFields(t) : AllFields(t)[j].strictOnly}}]
UngatedFields ==
    [t \in Tables |->
        {AllFields(t)[i] : i \in {j \in DOMAIN AllFields(t) : ~AllFields(t)[j].strictOnly}}]

StrictOnlyKeys(t) == GatedKeys[t]
AlwaysFields(t) == UngatedFields[t]

Without(ms, keys) == SelectSeq(ms, LAMBDA m : m[1] \notin keys)

OneEdit(t) ==
    {SetAt(Base(t), p, v) : p \in DOMAIN Base(t), v \in AltValues}

GatedDropped(t) == {Without(Base(t), ks) : ks \in SUBSET StrictOnlyKeys(t)}

WithExtra(ms) ==
    {ms, <<<<ExtraKey, I(0)>>>> \o ms, ms \o <<<<ExtraKey, I(0)>>>>}

\* one key dropped and the value of the first or the last of the others
\* replaced by text
DropAndSet(t) ==
    {SetAt(DropAt(Base(t), p), q, JStr("1")) :
        p \in DOMAIN Base(t), q \in {1, Len(Base(t)) - 1}}

\* the value of one key replaced by text
TextAt(t) == {SetAt(Base(t), p, JStr("1")) : p \in DOMAIN Base(t)}

Dropped(t) == {DropAt(Base(t), p) : p \in DOMAIN Base(t)}

RawRecordsOf ==
    [t \in Tables |->
        OneEdit(t) \cup GatedDropped(t) \cup DropAndSet(t)
        \cup UNION {WithExtra(ms) : ms \in {Base(t)} \cup Dropped(t) \cup TextAt(t)}]

RawRecords(t) == RawRecordsOf[t]

-----------------------------------------------------------------------------
(* Spec: one raw record, decoded by the build with the feature and by the  *)
(* build without it.                                                       *)

NoRaws == [t \in Tables |-> <<>>]
NotLoaded == [state |-> "unloaded", err |-> "", pos |-> <<>>, id |-> N(0, 0), records |-> <<>>]
NoLookup == [done |-> FALSE]

Init ==
    /\ table \in Tables
    /\ raw \in {JObject(ms) : ms \in RawRecords(table)}
    /\ result = [b \in BOOLEAN |-> Pending]
    /\ strict = FALSE
    /\ raws = NoRaws
    /\ loaded = [t \in Tables |-> NotLoaded]
    /\ lookup = NoLookup

DecodeInto(struct, strictBuild) ==
    /\ table = struct
    /\ result[strictBuild].err = "pending"
    /\ result' = [result EXCEPT ![strictBuild] = Decode(struct, strictBuild, raw)]
    /\ UNCHANGED <<table, raw, strict, raws, loaded, lookup>>

DecodePhantomItemData(strictBuild) == DecodeInto("PhantomItemData", strictBuild)

DecodePhantomCustomizeItemData(strictBuild) ==
    DecodeInto("PhantomCustomizeItemData", strictBuild)

DecodeSummonCfgData(strictBuild) == DecodeInto("SummonCfgData", strictBuild)

Next ==
    \/ \E b \in BOOLEAN : DecodePhantomItemData(b)
    \/ \E b \in BOOLEAN : DecodePhantomCustomizeItemData(b)
    \/ \E b \in BOOLEAN : DecodeSummonCfgData(b)

Spec == Init /\ [][Next]_vars

-----------------------------------------------------------------------------
(* What the claims speak of: the raw record of the state, read without     *)
(* the decoder.                                                            *)

Decoded(b) == result[b].err # "pending"

RawKeys == Keys(raw.v)
HasKey(k) == k \in RawKeys
ValueOf(k) == raw.v[CHOOSE i \in DOMAIN raw.v : raw.v[i][1] = k][2]
DeclaredKeys(t, b) == CompiledKeys[t, b]
FieldSets == [t \in Tables, b \in BOOLEAN |-> {Fields(t, b)[i] : i \in DOMAIN Fields(t, b)}]
FieldSet(t, b) == FieldSets[t, b]
FieldOfKey(t, k) == Fields(t, TRUE)[KeyIndex[t, TRUE][k]]

\* the positions of the members whose key the build does not declare
UndeclaredAt(b) == {i \in DOMAIN raw.v : raw.v[i][1] \notin DeclaredKeys(table, b)}
Least(S) == CHOOSE i \in S : \A j \in S : i <= j

\* member i is a declared key with a value its field decodes, or a key the
\* build ignores
MemberPasses(b, i) ==
    IF raw.v[i][1] \in DeclaredKeys(table, b)
    THEN DeValue(FieldOfKey(table, raw.v[i][1]).ty, b, raw.v[i][2]).ok
    ELSE ~DenyUnknownFields(table, b)

\* every member but the one with key k is as in the exact record, the
\* undeclared key aside
OthersAsBase(k) ==
    Without(raw.v, {k, ExtraKey}) = Without(Base(table), {k})

-----------------------------------------------------------------------------
(* C1.  As claimed: in strict mode a raw record with a top-level key the   *)
(* schema does not declare is rejected with UnknownField, whatever else    *)
(* the record holds.                                                       *)
C1_AsClaimed ==
    (Decoded(TRUE) /\ UndeclaredAt(TRUE) # {})
        => (~result[TRUE].ok /\ result[TRUE].err = UnknownField)

(* C1, amended.  In strict mode a raw record with a top-level key the      *)
(* schema does not declare is always rejected; the error is UnknownField,  *)
(* naming the first such key, whenever every member before that key        *)
(* decodes (in particular when all declared fields are present and valid). *)
C1_UnknownFieldRejected ==
    (Decoded(TRUE) /\ UndeclaredAt(TRUE) # {})
        => /\ ~result[TRUE].ok
           /\ (\A i \in 1..(Least(UndeclaredAt(TRUE)) - 1) : MemberPasses(TRUE, i))
                => /\ result[TRUE].err = UnknownField
                   /\ result[TRUE].field = raw.v[Least(UndeclaredAt(TRUE))][1]

\* the exact record followed by an undeclared key, rejected for that key
C1_Witness ==
    /\ raw.v = Base(table) \o <<<<ExtraKey, I(0)>>>>
    /\ result[TRUE].err = UnknownField
    /\ result[TRUE].field = ExtraKey

-----------------------------------------------------------------------------
MissingAlways(t) == {f \in AlwaysFields(t) : f.key \notin RawKeys}

(* C2.  As claimed: in both modes a raw record that lacks an `always`      *)
(* field fails with MissingField.                                          *)
C2_AsClaimed ==
    \A b \in BOOLEAN :
        (Decoded(b) /\ MissingAlways(table) # {})
            => (~result[b].ok /\ result[b].err = MissingField)

(* C2, amended.  In both modes a raw record that lacks an `always` field   *)
(* produces no Record and no default is substituted; the error is          *)
(* MissingField, naming a declared key the record lacks, whenever every    *)
(* member of the record decodes; otherwise the error of the first member   *)
(* that does not (UnknownField, TypeMismatch) is reported instead.         *)
C2_MissingFieldRejected ==
    \A b \in BOOLEAN :
        (Decoded(b) /\ MissingAlways(table) # {})
            => /\ ~result[b].ok
               /\ (\A i \in DOMAIN raw.v : MemberPasses(b, i))
                    => /\ result[b].err = MissingField
                       /\ result[b].field \in DeclaredKeys(table, b) \ RawKeys
               /\ (\E i \in DOMAIN raw.v : ~MemberPasses(b, i))
                    => result[b].err # MissingField

\* the exact record without its first key, refused by both builds
C2_Witness ==
    /\ raw.v = DropAt(Base(table), 1)
    /\ \A b \in BOOLEAN :
        result[b].err = MissingField /\ result[b].field = Base(table)[1][1]

-----------------------------------------------------------------------------
AlwaysValid ==
    \A f \in AlwaysFields(table) :
        HasKey(f.key) /\ DeValue(f.ty, FALSE, ValueOf(f.key)).ok

(* C3.  In lenient mode a raw record that omits strict-only fields (any    *)
(* non-empty subset of them) and has every `always` field valid decodes,   *)
(* and the Record has no slot for any strict-only field; the strict build  *)
(* rejects the same record.                                                *)
C3_StrictOnlyOmitted ==
    (/\ Decoded(FALSE) /\ Decoded(TRUE)
     /\ StrictOnlyKeys(table) \ RawKeys # {}
     /\ AlwaysValid)
        => /\ result[FALSE].ok
           /\ DOMAIN result[FALSE].val = {f.name : f \in AlwaysFields(table)}
           /\ ~result[TRUE].ok

\* every strict-only key of PhantomItemData omitted
C3_Witness ==
    /\ table = "PhantomItemData"
    /\ RawKeys \cap StrictOnlyKeys(table) = {}
    /\ result[FALSE].ok
    /\ "monster_name" \notin DOMAIN result[FALSE].val
    /\ result[TRUE].err = MissingField

-----------------------------------------------------------------------------
(* Raw values read field by field, as the schema describes them.           *)

IsNumberList(v, inRange(_)) ==
    v.kind = "list" /\ \A i \in DOMAIN v.v : v.v[i].kind = "int" /\ inRange(v.v[i].v)

MemberOf(obj, k) == obj.v[CHOOSE i \in DOMAIN obj.v : obj.v[i][1] = k][2]

\* the raw value is of the declared kind, in range and of the declared shape
KindExact(ty, v) ==
    CASE ty = "i32" -> v.kind = "int" /\ InI32(v.v)
      [] ty = "String" -> v.kind = "str"
      [] ty = "bool" -> v.kind = "bool"
      [] ty = "Vec<i32>" -> IsNumberList(v, InI32)
      [] ty = "Vec<i64>" -> IsNumberList(v, InI64)
      [] ty = "[f32; 3]" ->
            /\ v.kind = "list" /\ Len(v.v) = TupleArity
            /\ \A i \in DOMAIN v.v : v.v[i].kind = "float"
      [] ty = "MainProp" ->
            /\ v.kind = "map" /\ Len(v.v) = 2
            /\ Keys(v.v) = {"RandGroupId", "RandNum"}
            /\ \A i \in DOMAIN v.v : v.v[i][2].kind = "int" /\ InI32(v.v[i][2].v)

\* the value a raw value of the declared kind stands for
Plain(ty, v) ==
    CASE ty \in {"i32", "String", "bool"} -> v.v
      [] ty \in {"Vec<i32>", "Vec<i64>", "[f32; 3]"} -> [i \in DOMAIN v.v |-> v.v[i].v]
      [] ty = "MainProp" ->
            [n \in {"rand_group_id", "rand_num"} |->
                IF n = "rand_group_id" THEN MemberOf(v, "RandGroupId").v
                ELSE MemberOf(v, "RandNum").v]

\* the same, with every float narrowed to the nearest f32
Narrowed(ty, v) ==
    IF ty = "[f32; 3]" THEN [i \in DOMAIN v.v |-> F32Round(v.v[i].v)] ELSE Plain(ty, v)

AllKeys(t) == CompiledKeys[t, TRUE]

\* the raw record matches the schema of build b: the keys the build
\* declares, none the struct does not declare, every declared value valid
Exact(b) ==
    /\ DeclaredKeys(table, b) \subseteq RawKeys
    /\ RawKeys \subseteq AllKeys(table)
    /\ \A f \in FieldSet(table, b) : KindExact(f.ty, ValueOf(f.key))

(* C4.  As claimed: a valid raw record matching the schema exactly decodes *)
(* in either mode, and every `always` field of the Record equals the       *)
(* value of its raw key.                                                   *)
C4_AsClaimed ==
    \A b \in BOOLEAN :
        (Decoded(b) /\ Exact(b))
            => /\ result[b].ok
               /\ \A f \in AlwaysFields(table) :
                    result[b].val[f.name] = Plain(f.ty, ValueOf(f.key))

(* C4, amended.  A valid raw record matching the schema exactly decodes    *)
(* in either mode, and every `always` field of the Record equals the       *)
(* value of its raw key, except that each component of zoom, location and  *)
(* rotator is the raw number rounded to the nearest f32.                   *)
C4_RoundTrip ==
    \A b \in BOOLEAN :
        (Decoded(b) /\ Exact(b))
            => /\ result[b].ok
               /\ \A f \in AlwaysFields(table) :
                    result[b].val[f.name] = Narrowed(f.ty, ValueOf(f.key))

\* a PhantomItemData whose Zoom holds 16777217.0, decoded to 16777216.0
C4_Witness ==
    /\ table = "PhantomItemData"
    /\ Exact(TRUE)
    /\ ValueOf("Zoom").v[1] = F(F32Exact + 1)
    /\ result[TRUE].ok /\ result[FALSE].ok
    /\ result[TRUE].val["zoom"][1] = N(0, F32Exact)
    /\ result[TRUE].val["item_id"] = N(0, 1)
    /\ result[FALSE].val["main_prop"]["rand_group_id"] = N(0, 5)

-----------------------------------------------------------------------------
ListFieldSets == [t \in Tables, b \in BOOLEAN |-> {f \in FieldSet(t, b) : f.ty \in {"Vec<i32>", "Vec<i64>"}}]
ListFields(t, b) == ListFieldSets[t, b]
ElementRange(ty, n) == IF ty = "Vec<i64>" THEN InI64(n) ELSE InI32(n)
TupleFieldSets == [t \in Tables, b \in BOOLEAN |-> {f \in FieldSet(t, b) : f.ty = "[f32; 3]"}]
TupleFields(t, b) == TupleFieldSets[t, b]

\* the record is the exact one but for key k, with no key the build denies
OnlyKeyEdited(b, k) == OthersAsBase(k) /\ (b => ExtraKey \notin RawKeys)

(* C5.  A list field decodes a raw list of any length n >= 0 into exactly  *)
(* n elements in input order; the empty list is accepted and gives a       *)
(* zero-length sequence, while an absent key fails with MissingField.      *)
C5_Lists ==
    \A b \in BOOLEAN : \A f \in ListFields(table, b) :
        Decoded(b) =>
            /\ (/\ HasKey(f.key) /\ OnlyKeyEdited(b, f.key)
                /\ IsNumberList(ValueOf(f.key), LAMBDA n : ElementRange(f.ty, n)))
                => result[b].ok
            /\ (HasKey(f.key) /\ result[b].ok)
                => /\ ValueOf(f.key).kind = "list"
                   /\ Len(result[b].val[f.name]) = Len(ValueOf(f.key).v)
                   /\ \A i \in DOMAIN ValueOf(f.key).v :
                        result[b].val[f.name][i] = ValueOf(f.key).v[i].v
            /\ ~HasKey(f.key) => ~result[b].ok
            /\ (~HasKey(f.key) /\ OnlyKeyEdited(b, f.key))
                => result[b].err = MissingField /\ result[b].field = f.key

\* SummonCfgData with BornBuffId: [] decoded by both builds to no elements
C5_Witness ==
    /\ table = "SummonCfgData"
    /\ HasKey("BornBuffId") /\ ValueOf("BornBuffId") = JList(<<>>)
    /\ \A b \in BOOLEAN : result[b].ok /\ Len(result[b].val["born_buff_id"]) = 0

-----------------------------------------------------------------------------
(* C7.  As claimed: in strict mode a PhantomItemData whose MainProp holds  *)
(* a key other than RandGroupId and RandNum is rejected with UnknownField. *)
C7_AsClaimed ==
    (/\ Decoded(TRUE) /\ table = "PhantomItemData" /\ HasKey("MainProp")
     /\ ValueOf("MainProp").kind = "map"
     /\ ~(Keys(ValueOf("MainProp").v) \subseteq {"RandGroupId", "RandNum"}))
        => (~result[TRUE].ok /\ result[TRUE].err = UnknownField)

-----------------------------------------------------------------------------
IsNumber(v) == v.kind \in {"int", "float"}

(* C8.  zoom, location and rotator accept a raw list only when it has      *)
(* exactly 3 elements: a list of any other length fails in both modes,     *)
(* while the list fields of the same record accept any length.             *)
C8_TupleArity ==
    \A b \in BOOLEAN :
        Decoded(b) =>
            /\ \A f \in TupleFields(table, b) :
                /\ (/\ HasKey(f.key) /\ ValueOf(f.key).kind = "list"
                    /\ Len(ValueOf(f.key).v) # 3)
                    => ~result[b].ok
                /\ (/\ HasKey(f.key) /\ OnlyKeyEdited(b, f.key)
                    /\ ValueOf(f.key).kind = "list" /\ Len(ValueOf(f.key).v) = 3
                    /\ \A i \in 1..3 : IsNumber(ValueOf(f.key).v[i]))
                    => result[b].ok /\ Len(result[b].val[f.name]) = 3
            /\ \A f \in ListFields(table, b) :
                (/\ table = "PhantomItemData"
                 /\ HasKey(f.key) /\ OnlyKeyEdited(b, f.key)
                 /\ IsNumberList(ValueOf(f.key), InI32))
                    => /\ result[b].ok
                       /\ Len(result[b].val[f.name]) = Len(ValueOf(f.key).v)

\* Zoom with four numbers, refused by both builds
C8_Witness ==
    /\ table = "PhantomItemData"
    /\ HasKey("Zoom") /\ ValueOf("Zoom") = JList(FloatList(4))
    /\ OthersAsBase("Zoom")
    /\ \A b \in BOOLEAN : result[b].err = InvalidLength

-----------------------------------------------------------------------------
(* The kind a type declares, for a field and for the elements of a list.   *)
DeclaredKind(ty) ==
    CASE ty \in {"i32", "i64"} -> "int"
      [] ty = "f32" -> "float"
      [] ty = "String" -> "str"
      [] ty = "bool" -> "bool"
      [] ty \in {"Vec<i32>", "Vec<i64>", "[f32; 3]"} -> "list"
      [] ty = "MainProp" -> "map"

ElementType(ty) ==
    CASE ty = "Vec<i32>" -> "i32"
      [] ty = "Vec<i64>" -> "i64"
      [] ty = "[f32; 3]" -> "f32"

\* the raw value, or one element of the raw list, is of another kind than
\* the field declares
KindDiffers(ty, v) ==
    \/ v.kind # DeclaredKind(ty)
    \/ /\ ty \in {"Vec<i32>", "Vec<i64>", "[f32; 3]"}
       /\ \E i \in DOMAIN v.v : v.v[i].kind # DeclaredKind(ElementType(ty))

\* the kinds the decoder of a type takes for the value as a whole
TakenKinds(ty) ==
    IF ty = "MainProp" THEN {"map", "list"} ELSE {DeclaredKind(ty)}

\* the kinds the decoder of an element takes
TakenElementKinds(ty) ==
    IF ty = "[f32; 3]" THEN {"int", "float"} ELSE {"int"}

\* the elements of a raw list the decoder reads
ReadElements(ty, v) ==
    IF ty = "[f32; 3]" THEN {i \in DOMAIN v.v : i <= TupleArity} ELSE DOMAIN v.v

(* C9.  As claimed: in both modes no Record is produced from a raw value   *)
(* whose kind differs from the field's declared kind (the claim names the  *)
(* failure a TypeMismatch).                                                *)
C9_AsClaimed ==
    \A b \in BOOLEAN : \A f \in FieldSet(table, b) :
        (Decoded(b) /\ HasKey(f.key) /\ KindDiffers(f.ty, ValueOf(f.key)))
            => ~result[b].ok

\* the positions of the members whose value is, as a whole, of a kind the
\* decoder of the field does not take
RefusedAt(b) ==
    {i \in DOMAIN raw.v :
        /\ raw.v[i][1] \in DeclaredKeys(table, b)
        /\ raw.v[i][2].kind \notin TakenKinds(FieldOfKey(table, raw.v[i][1]).ty)}

(* C9, amended.  In both modes no Record is produced when the raw value    *)
(* of a declared field is of a kind the field's type does not take: only   *)
(* an integer for i32, text for String, a boolean for bool, a list for a   *)
(* list or tuple field, an object or a positional list for MainProp.  The  *)
(* error is TypeMismatch whenever every member before that field decodes.  *)
(* Numeric-looking text is not coerced.  A list fails as a whole when one  *)
(* element it reads is of the wrong kind, where a tuple component takes    *)
(* an integer as well as a float.  An integer outside the signed 32-bit    *)
(* range is rejected for an i32 field, while the elements of born_buff_id  *)
(* take the full signed 64-bit range, unchanged.                           *)
C9_KindMismatch ==
    \A b \in BOOLEAN :
        Decoded(b) =>
            /\ RefusedAt(b) # {}
                => /\ ~result[b].ok
                   /\ (\A j \in 1..(Least(RefusedAt(b)) - 1) : MemberPasses(b, j))
                        => result[b].err = TypeMismatch
            /\ \A f \in FieldSet(table, b) :
                HasKey(f.key) =>
                    LET v == ValueOf(f.key) IN
                    /\ (f.ty = "i32" /\ v = JStr("1")) => ~result[b].ok
                    /\ (f.ty = "i32" /\ v.kind = "int" /\ ~InI32(v.v)) => ~result[b].ok
                    /\ (/\ f.ty \in {"Vec<i32>", "Vec<i64>", "[f32; 3]"}
                        /\ v.kind = "list"
                        /\ \E i \in ReadElements(f.ty, v) :
                                v.v[i].kind \notin TakenElementKinds(f.ty))
                        => ~result[b].ok
                    /\ (/\ f.ty = "Vec<i32>" /\ v.kind = "list"
                        /\ \E i \in DOMAIN v.v : v.v[i].kind = "int" /\ ~InI32(v.v[i].v))
                        => ~result[b].ok
                    /\ (f.ty = "Vec<i64>" /\ OnlyKeyEdited(b, f.key) /\ IsNumberList(v, InI64))
                        => /\ result[b].ok
                           /\ result[b].val[f.name] = [i \in DOMAIN v.v |-> v.v[i].v]
                    /\ (/\ f.ty = "Vec<i64>" /\ v.kind = "list"
                        /\ \E i \in DOMAIN v.v : v.v[i].kind = "int" /\ ~InI64(v.v[i].v))
                        => ~result[b].ok

\* the identifier given as the text "1", refused by both builds
C9_Witness ==
    /\ raw.v = SetAt(Base(table), 1, JStr("1"))
    /\ \A b \in BOOLEAN : ~result[b].ok /\ result[b].err = TypeMismatch

-----------------------------------------------------------------------------
(* C10.  Whenever the strict build decodes a raw record, the lenient       *)
(* build decodes it too, and the two Records agree on every `always`       *)
(* field; the strict-only keys of the input are dropped by the lenient     *)
(* decoder, not rejected.                                                  *)
C10_LenientRefinesStrict ==
    (Decoded(TRUE) /\ Decoded(FALSE) /\ result[TRUE].ok)
        => /\ result[FALSE].ok
           /\ \A f \in AlwaysFields(table) :
                result[FALSE].val[f.name] = result[TRUE].val[f.name]
           /\ DOMAIN result[FALSE].val = {f.name : f \in AlwaysFields(table)}

\* a record with strict-only keys, decoded by both builds
C10_Witness ==
    /\ StrictOnlyKeys(table) # {}
    /\ StrictOnlyKeys(table) \subseteq RawKeys
    /\ result[TRUE].ok /\ result[FALSE].ok
    /\ DOMAIN result[TRUE].val # DOMAIN result[FALSE].val

-----------------------------------------------------------------------------
(* SpecLoad: the table loader and the catalog's get.  Raw records are      *)
(* supplied per table, each table is loaded on its own, and the catalog    *)
(* answers get(identifier) once every table has finished loading.          *)

\* the raw records supplied to the loader, over all tables
MaxRecords == 2
\* the identifiers the supplied records carry; get also asks for MaxId + 1
MaxId == 2

DuplicateIdentifier == "DuplicateIdentifier"

\* the index built on the second field of each struct
PrimaryIdSecondField(t) ==
    CASE t = "PhantomItemData" -> "monster_id"
      [] t = "PhantomCustomizeItemData" -> "phantom_id"
      [] t = "SummonCfgData" -> "id"

\* the field that addresses a record within its table
PrimaryId(t) ==
    CASE t = "PhantomItemData" -> "item_id"
      [] t = "PhantomCustomizeItemData" -> "item_id"
      [] t = "SummonCfgData" -> "id"

\* the record of table t with identifier id (the identifier is the first
\* field of all three structs), and a record without its second field
RecordWithId(t, id) == JObject(SetAt(Base(t), 1, I(id)))
BrokenRecord(t) == JObject(DropAt(Base(t), 2))
LoaderRecordsOf ==
    [t \in Tables |-> {RecordWithId(t, id) : id \in 1..MaxId} \cup {BrokenRecord(t)}]
LoaderRecords(t) == LoaderRecordsOf[t]

Sum3(f) == Len(f["PhantomItemData"]) + Len(f["PhantomCustomizeItemData"])
            + Len(f["SummonCfgData"])

\* decode in input order: the records decoded so far, or the first failure
\* and its position
RECURSIVE DecodeInOrder(_, _, _, _, _)
RECURSIVE DecodedAt(_, _, _, _, _, _)
DecodeInOrder(t, strictBuild, rs, i, recs) ==
    IF i > Len(rs) THEN [ok |-> TRUE, recs |-> recs, pos |-> 0, err |-> ""]
    ELSE DecodedAt(t, strictBuild, rs, i, recs, Decode(t, strictBuild, rs[i]))

\* record i decoded to r: go on with the next record, or fail the load
DecodedAt(t, strictBuild, rs, i, recs, r) ==
    IF r.ok
    THEN DecodeInOrder(t, strictBuild, rs, i + 1, Append(recs, r.val))
    ELSE [ok |-> FALSE, recs |-> <<>>, pos |-> i, err |-> r.err]

\* the first position, in input order, whose identifier an earlier record
\* already has, or 0
FirstDuplicate(t, recs) ==
    IF \E j \in DOMAIN recs : \E i \in 1..(j - 1) :
            recs[i][PrimaryId(t)] = recs[j][PrimaryId(t)]
    THEN CHOOSE j \in DOMAIN recs :
            /\ \E i \in 1..(j - 1) : recs[i][PrimaryId(t)] = recs[j][PrimaryId(t)]
            /\ \A k \in 1..(j - 1) : \A i \in 1..(k - 1) :
                    recs[i][PrimaryId(t)] # recs[k][PrimaryId(t)]
    ELSE 0

\* the identifier index over the decoded records: the table, or the first
\* duplicate with the position of the record that had the identifier first
IndexRecords(t, recs, j) ==
    IF j # 0
    THEN [state |-> "failed", err |-> DuplicateIdentifier,
          pos |-> <<CHOOSE i \in 1..(j - 1) :
                        recs[i][PrimaryId(t)] = recs[j][PrimaryId(t)], j>>,
          id |-> recs[j][PrimaryId(t)], records |-> <<>>]
    ELSE [state |-> "published", err |-> "", pos |-> <<>>,
          id |-> N(0, 0), records |-> recs]

\* the outcome of a load whose decode pass ended as d
LoadOutcome(t, d) ==
    IF ~d.ok
    THEN [state |-> "failed", err |-> d.err, pos |-> <<d.pos>>,
          id |-> N(0, 0), records |-> <<>>]
    ELSE IndexRecords(t, d.recs, FirstDuplicate(t, d.recs))

\* the loader: decode in input order, fail on the first decode failure,
\* then index by identifier and fail on a duplicate
LoadTable(t, strictBuild, rs) ==
    LoadOutcome(t, DecodeInOrder(t, strictBuild, rs, 1, <<>>))

\* get(identifier) on a published table
GetRecord(t, tbl, id) ==
    IF \E i \in DOMAIN tbl.records : tbl.records[i][PrimaryId(t)] = id
    THEN [done |-> TRUE, table |-> t, id |-> id, found |-> TRUE,
          rec |-> tbl.records[CHOOSE i \in DOMAIN tbl.records :
                                  tbl.records[i][PrimaryId(t)] = id]]
    ELSE [done |-> TRUE, table |-> t, id |-> id, found |-> FALSE, rec |-> <<>>]

InitLoad ==
    /\ strict \in BOOLEAN
    /\ raws = NoRaws
    /\ loaded = [t \in Tables |-> NotLoaded]
    /\ lookup = NoLookup
    /\ table = "PhantomItemData"
    /\ raw = JNull
    /\ result = [b \in BOOLEAN |-> Pending]

\* the external loader hands over the next raw record of table t
Supply(t, r) ==
    /\ loaded[t].state = "unloaded"
    /\ Sum3(raws) < MaxRecords
    /\ raws' = [raws EXCEPT ![t] = Append(@, r)]
    /\ UNCHANGED <<table, raw, result, strict, loaded, lookup>>

Load(t) ==
    /\ loaded[t].state = "unloaded"
    /\ loaded' = [loaded EXCEPT ![t] = LoadTable(t, strict, raws[t])]
    /\ UNCHANGED <<table, raw, result, strict, raws, lookup>>

Get(t, id) ==
    /\ \A u \in Tables : loaded[u].state # "unloaded"
    /\ loaded[t].state = "published"
    /\ lookup' = GetRecord(t, loaded[t], id)
    /\ UNCHANGED <<table, raw, result, strict, raws, loaded>>

NextLoad ==
    \/ \E t \in Tables : \E r \in LoaderRecords(t) : Supply(t, r)
    \/ \E t \in Tables : Load(t)
    \/ \E t \in Tables : \E i \in 1..(MaxId + 1) : Get(t, N(0, i))

SpecLoad == InitLoad /\ [][NextLoad]_vars

-----------------------------------------------------------------------------
\* the identifier the i-th raw record of table t carries (its first member)
IdAt(t, i) == raws[t][i].v[1][2].v

AllDecode(t) == \A i \in DOMAIN raws[t] : Decode(t, strict, raws[t][i]).ok

SameId(t) ==
    {p \in (DOMAIN raws[t]) \X (DOMAIN raws[t]) : p[1] < p[2] /\ IdAt(t, p[1]) = IdAt(t, p[2])}

(* C6.  Loading one table: if two decoded Records share the primary        *)
(* identifier the load fails with DuplicateIdentifier naming both input    *)
(* positions and the identifier, and no Table is published; if all         *)
(* identifiers are distinct the load succeeds, and get(id) returns the     *)
(* record for every loaded id and Empty for every other id.  Whether a     *)
(* table loads depends on its own records only: the same identifier may    *)
(* appear in two tables.                                                   *)
C6_LoadAndGet ==
    /\ \A t \in Tables :
        (loaded[t].state # "unloaded" /\ AllDecode(t)) =>
            /\ SameId(t) # {}
                => /\ loaded[t].state = "failed"
                   /\ loaded[t].err = DuplicateIdentifier
                   /\ loaded[t].pos \in SameId(t)
                   /\ loaded[t].id = IdAt(t, loaded[t].pos[1])
                   /\ loaded[t].records = <<>>
            /\ SameId(t) = {}
                => /\ loaded[t].state = "published"
                   /\ Len(loaded[t].records) = Len(raws[t])
    /\ lookup.done =>
        /\ loaded[lookup.table].state = "published"
        /\ lookup.found <=> \E i \in DOMAIN raws[lookup.table] : IdAt(lookup.table, i) = lookup.id
        /\ lookup.found =>
            \E i \in DOMAIN raws[lookup.table] :
                /\ IdAt(lookup.table, i) = lookup.id
                /\ lookup.rec = Decode(lookup.table, strict, raws[lookup.table][i]).val

\* identifier 1 in PhantomItemData and in PhantomCustomizeItemData, both
\* published, and get(1) answered
C6_Witness ==
    /\ loaded["PhantomItemData"].state = "published"
    /\ loaded["PhantomCustomizeItemData"].state = "published"
    /\ \E i \in DOMAIN raws["PhantomItemData"] :
       \E j \in DOMAIN raws["PhantomCustomizeItemData"] :
            IdAt("PhantomItemData", i) = IdAt("PhantomCustomizeItemData", j)
    /\ lookup.done /\ lookup.found /\ lookup.id = N(0, 1)

====
